---------------------------- MODULE Spec2Model ----------------------------
(***************************************************************************)
(* pitchconv: conversion of a pitch name between scientific pitch notation *)
(* ("C#4") and the alternative notation ("mid2C#", "hiA").                 *)
(*                                                                         *)
(* A string is a sequence of characters; a character is a one-character    *)
(* TLA+ string, except NonAsciiDigit and Newline, which stand for one      *)
(* character each.                                                         *)
(***************************************************************************)
EXTENDS Integers, Sequences, FiniteSets, TLC

VARIABLES
    input,      \* the string handed to PitchWithFormat::from_str
    pc,         \* position of the run
    pitch0,     \* the Pitch a rendering started from (NoPitch for a raw input)
    sci,        \* what parse_scientific_pitch_notation returned (NotCalled before)
    alt,        \* what parse_alternative_pitch_notation returned (NotCalled before)
    result,     \* what PitchWithFormat::from_str returned (NotCalled before)
    class,      \* what PitchClass::from_str returned (ClassNotCalled before)
    cmp,        \* the Pitch that pitch0 was compared with, and what Ord::cmp returned
    output      \* what main wrote to standard output

vars == <<input, pc, pitch0, sci, alt, result, class, cmp, output>>

-----------------------------------------------------------------------------
(* Bounds of the inputs drawn by Init. *)

\* the longest run of "hi" units among the drawn alternative-like inputs
MaxHi == 253
\* the largest number written out as the octave of a drawn scientific-like input
MaxNum == 257
\* every string over Alphabet up to this length is drawn
MaxLen == 3

-----------------------------------------------------------------------------
(* Integer widths. *)

\* u8::MAX
U8_MAX == 255
\* The width of usize.  Rust targets have 16, 32 or 64 bit pointers; TLC's
\* integers are 32 bit, so the model takes the narrowest.  What the code does
\* with a wrapped value (compare it with u8::MAX, narrow it to u8) comes out
\* the same for every width: 2^w - 1 > 255 and (2^w - 1) % 256 = 255.
USIZE_BITS == 16

USIZE_MOD == 2 ^ USIZE_BITS

-----------------------------------------------------------------------------
(* Characters. *)

Newline == "\n"
\* a decimal digit of Unicode class Nd that is not ASCII (U+0663)
NonAsciiDigit == "U+0663"

AsciiDigits == <<"0", "1", "2", "3", "4", "5", "6", "7", "8", "9">>

IsAsciiDigit(ch) == \E i \in 1..10 : AsciiDigits[i] = ch

\* char::to_digit(10) of an ASCII digit
DigitValue(ch) == (CHOOSE i \in 1..10 : AsciiDigits[i] = ch) - 1

\* the regex class [A-G]
IsAtoG(ch) == ch \in {"A", "B", "C", "D", "E", "F", "G"}

\* the regex class [1-9]
IsOneToNine(ch) == ch \in {"1", "2", "3", "4", "5", "6", "7", "8", "9"}

\* the regex class \d, which is Unicode-aware in the regex crate
IsRegexDigit(ch) == IsAsciiDigit(ch) \/ ch = NonAsciiDigit

-----------------------------------------------------------------------------
(* Texts. *)

LOW == <<"l", "o", "w">>
LOWLOW == <<"l", "o", "w", "l", "o", "w">>
LOWLOWLOW == <<"l", "o", "w", "l", "o", "w", "l", "o", "w">>
MID1 == <<"m", "i", "d", "1">>
MID2 == <<"m", "i", "d", "2">>
MID3 == <<"m", "i", "d", "3">>
MID == <<"m", "i", "d">>
HIGH == <<"h", "i", "g", "h">>
INVALID == <<"i", "n", "v", "a", "l", "i", "d">>
RUN1000 == <<"1", "0", "0", "0">>
RUN2550 == <<"2", "5", "5", "0">>
RUN99999 == <<"9", "9", "9", "9", "9">>
RUN20 == <<"1", "0", "0", "0", "0", "0", "0", "0", "0", "0", "0", "0", "0", "0", "0", "0", "0", "0", "0", "0">>

-----------------------------------------------------------------------------
(* PitchClass and its codec. *)

PitchClass ==
    <<"C", "CSharp", "D", "DSharp", "E", "F", "FSharp", "G", "GSharp", "A", "ASharp", "B">>

PitchClasses == {PitchClass[i] : i \in 1..12}

ParsePitchClassError == "ParsePitchClassError"
\* PitchClass::from_str was not called
ClassNotCalled == "not called"

as_str(pitch_class) ==
    CASE pitch_class = "C" -> <<"C">>
      [] pitch_class = "CSharp" -> <<"C", "#">>
      [] pitch_class = "D" -> <<"D">>
      [] pitch_class = "DSharp" -> <<"D", "#">>
      [] pitch_class = "E" -> <<"E">>
      [] pitch_class = "F" -> <<"F">>
      [] pitch_class = "FSharp" -> <<"F", "#">>
      [] pitch_class = "G" -> <<"G">>
      [] pitch_class = "GSharp" -> <<"G", "#">>
      [] pitch_class = "A" -> <<"A">>
      [] pitch_class = "ASharp" -> <<"A", "#">>
      [] pitch_class = "B" -> <<"B">>

\* mutant: the arm "D#" returns the variant of the arm before it
parse_pitch_class_slip(s) ==
    CASE s = <<"C">> -> "C"
      [] s = <<"C", "#">> -> "CSharp"
      [] s = <<"D">> -> "D"
      [] s = <<"D", "#">> -> "D"
      [] s = <<"E">> -> "E"
      [] s = <<"F">> -> "F"
      [] s = <<"F", "#">> -> "FSharp"
      [] s = <<"G">> -> "G"
      [] s = <<"G", "#">> -> "GSharp"
      [] s = <<"A">> -> "A"
      [] s = <<"A", "#">> -> "ASharp"
      [] s = <<"B">> -> "B"
      [] OTHER -> ParsePitchClassError

\* mutant: the letter matched without regard to case
parse_pitch_class_any_case(s) ==
    CASE s \in {<<"C">>, <<"c">>} -> "C"
      [] s \in {<<"C", "#">>, <<"c", "#">>} -> "CSharp"
      [] s \in {<<"D">>, <<"d">>} -> "D"
      [] s \in {<<"D", "#">>, <<"d", "#">>} -> "DSharp"
      [] s \in {<<"E">>, <<"e">>} -> "E"
      [] s \in {<<"F">>, <<"f">>} -> "F"
      [] s \in {<<"F", "#">>, <<"f", "#">>} -> "FSharp"
      [] s \in {<<"G">>, <<"g">>} -> "G"
      [] s \in {<<"G", "#">>, <<"g", "#">>} -> "GSharp"
      [] s \in {<<"A">>, <<"a">>} -> "A"
      [] s \in {<<"A", "#">>, <<"a", "#">>} -> "ASharp"
      [] s \in {<<"B">>, <<"b">>} -> "B"
      [] OTHER -> ParsePitchClassError

parse_pitch_class(s) ==
    CASE s = <<"C">> -> "C"
      [] s = <<"C", "#">> -> "CSharp"
      [] s = <<"D">> -> "D"
      [] s = <<"D", "#">> -> "DSharp"
      [] s = <<"E">> -> "E"
      [] s = <<"F">> -> "F"
      [] s = <<"F", "#">> -> "FSharp"
      [] s = <<"G">> -> "G"
      [] s = <<"G", "#">> -> "GSharp"
      [] s = <<"A">> -> "A"
      [] s = <<"A", "#">> -> "ASharp"
      [] s = <<"B">> -> "B"
      [] OTHER -> ParsePitchClassError

-----------------------------------------------------------------------------
(* Results. *)

NoPitch == [octave |-> -1, pitch_class |-> "none"]

Pitch(octave, pitch_class) == [octave |-> octave, pitch_class |-> pitch_class]

\* Result<Pitch, ParsePitchError>
OkPitch(p) == [kind |-> "Ok", pitch |-> p]
ParsePitchError == [kind |-> "ParsePitchError", pitch |-> NoPitch]
\* the call did not return: the thread panicked inside it
Panicked == [kind |-> "panic", pitch |-> NoPitch]
\* the call was not made
NotCalled == [kind |-> "not called", pitch |-> NoPitch]

ScientificPitchNotation == "ScientificPitchNotation"
AlternativePitchNotation == "AlternativePitchNotation"

\* Result<PitchWithFormat, ParsePitchError>
OkPitchWithFormat(p, f) == [kind |-> "Ok", pitch |-> p, format |-> f]
FromStrError == [kind |-> "ParsePitchError", pitch |-> NoPitch, format |-> "none"]
FromStrPanicked == [kind |-> "panic", pitch |-> NoPitch, format |-> "none"]
FromStrNotCalled == [kind |-> "not called", pitch |-> NoPitch, format |-> "none"]

\* std::cmp::Ordering
Less == "Less"
Equal == "Equal"
Greater == "Greater"

\* Ord::cmp was not called
NotCompared == [other |-> NoPitch, ordering |-> "not called"]

\* Ord::cmp of two integers (u8 values, enum discriminants)
int_cmp(a, b) == IF a < b THEN Less ELSE IF a = b THEN Equal ELSE Greater

\* the discriminant of a variant: its place in the declaration, from 0
Discriminant(c) == (CHOOSE i \in 1..Len(PitchClass) : PitchClass[i] = c) - 1

\* the derived Ord of PitchClass: by discriminant
pitch_class_cmp(a, b) == int_cmp(Discriminant(a), Discriminant(b))

\* mutant: the fields compared in the other order, pitch_class before octave
pitch_cmp_class_first(p, q) ==
    IF pitch_class_cmp(p.pitch_class, q.pitch_class) # Equal
    THEN pitch_class_cmp(p.pitch_class, q.pitch_class)
    ELSE int_cmp(p.octave, q.octave)

\* the derived Ord of Pitch: the fields in declaration order, octave first
pitch_cmp(p, q) ==
    IF int_cmp(p.octave, q.octave) # Equal
    THEN int_cmp(p.octave, q.octave)
    ELSE pitch_class_cmp(p.pitch_class, q.pitch_class)

-----------------------------------------------------------------------------
(* Integers and text. *)

ParseIntError == -1

\* <u8 as FromStr>::from_str on a string the scientific pattern captured: digit
\* by digit, result = result * 10 + digit, each step checked against u8::MAX
RECURSIVE parse_u8_from(_, _, _)
parse_u8_from(digits, i, acc) ==
    IF i > Len(digits) THEN acc
    ELSE IF ~IsAsciiDigit(digits[i]) THEN ParseIntError
    ELSE LET next == acc * 10 + DigitValue(digits[i])
         IN  IF next > U8_MAX THEN ParseIntError
             ELSE parse_u8_from(digits, i + 1, next)

\* mutant: unchecked arithmetic, the value wraps at 8 bits
RECURSIVE parse_u8_wrapping_from(_, _, _)
parse_u8_wrapping_from(digits, i, acc) ==
    IF i > Len(digits) THEN acc
    ELSE IF ~IsAsciiDigit(digits[i]) THEN ParseIntError
    ELSE parse_u8_wrapping_from(digits, i + 1,
                                (acc * 10 + DigitValue(digits[i])) % (U8_MAX + 1))

parse_u8_wrapping(digits) ==
    IF digits = <<>> THEN ParseIntError ELSE parse_u8_wrapping_from(digits, 1, 0)

parse_u8(digits) ==
    IF digits = <<>> THEN ParseIntError ELSE parse_u8_from(digits, 1, 0)

\* <u8 as Display>::fmt: the decimal digits, most significant first
RECURSIVE u8_to_string(_)
u8_to_string(n) ==
    IF n < 10 THEN <<AsciiDigits[n + 1]>>
    ELSE u8_to_string(n \div 10) \o <<AsciiDigits[(n % 10) + 1]>>

-----------------------------------------------------------------------------
(* The two patterns.  Regex::captures searches the text for the leftmost    *)
(* match; a pattern written ^...$ can only match the whole text.           *)

NoCaptures == [pitch_class |-> <<>>, octave |-> <<>>]

\* mutant: the patterns written without ^ and $
Unanchored == [start |-> FALSE, end |-> FALSE]

\* both patterns begin with the assertion ^ and end with the assertion $
Anchors == [start |-> TRUE, end |-> TRUE]

\* where in s a match may start, and where it may end
StartAllowed(s, i) == Anchors.start => i = 1
EndAllowed(s, j) == Anchors.end => j = Len(s)

\* the leftmost span, and for it the longest (the quantifiers are greedy)
FirstSpan(spans) ==
    CHOOSE sp \in spans :
        \A other \in spans :
            \/ sp[1] < other[1]
            \/ sp[1] = other[1] /\ sp[2] >= other[2]

\* mutant: the octave group is \d+, so that leading zeros match
ScientificBodyLeadingZeros(t) ==
    IF Len(t) < 2 \/ ~IsAtoG(t[1]) THEN NoCaptures
    ELSE LET n == IF t[2] = "#" THEN 2 ELSE 1
             digits == SubSeq(t, n + 1, Len(t))
         IN  IF /\ digits # <<>>
                /\ \A i \in 1..Len(digits) : IsRegexDigit(digits[i])
             THEN [pitch_class |-> SubSeq(t, 1, n), octave |-> digits]
             ELSE NoCaptures

\* (?<pitch_class>[A-G][#]?)(?<octave>0|([1-9]\d*)) on the whole of t
ScientificBody(t) ==
    IF Len(t) < 2 \/ ~IsAtoG(t[1]) THEN NoCaptures
    ELSE LET n == IF t[2] = "#" THEN 2 ELSE 1
             digits == SubSeq(t, n + 1, Len(t))
         IN  IF /\ digits # <<>>
                /\ \/ digits = <<"0">>
                   \/ /\ IsOneToNine(digits[1])
                      /\ \A i \in 2..Len(digits) : IsRegexDigit(digits[i])
             THEN [pitch_class |-> SubSeq(t, 1, n), octave |-> digits]
             ELSE NoCaptures

\* Regex::new(r"^(?<pitch_class>[A-G][#]?)(?<octave>0|([1-9]\d*))$").captures(s)
ScientificCaptures(s) ==
    LET starts == {i \in 1..Len(s) : StartAllowed(s, i) /\ IsAtoG(s[i])}
        ends == {j \in 1..Len(s) : EndAllowed(s, j) /\ IsRegexDigit(s[j])}
        spans == {sp \in starts \X ends :
                     /\ sp[1] <= sp[2]
                     /\ ScientificBody(SubSeq(s, sp[1], sp[2])) # NoCaptures}
    IN  IF spans = {} THEN NoCaptures
        ELSE LET sp == FirstSpan(spans) IN ScientificBody(SubSeq(s, sp[1], sp[2]))

\* t begins with the text lit
StartsWith(t, lit) == Len(t) >= Len(lit) /\ SubSeq(t, 1, Len(lit)) = lit

\* the number of "hi" units t begins with
LeadingHi(t) ==
    LET off == {i \in 1..Len(t) : t[i] # (IF i % 2 = 1 THEN "h" ELSE "i")}
        first == IF off = {} THEN Len(t) + 1
                 ELSE CHOOSE i \in off : \A k \in off : i <= k
    IN  (first - 1) \div 2

\* [A-G][#]? on the whole of t
IsClassShape(t) ==
    /\ Len(t) \in {1, 2}
    /\ IsAtoG(t[1])
    /\ Len(t) = 2 => t[2] = "#"

\* The alternatives of the octave group in the order the pattern lists them,
\* (hi)+ from its longest repetition down: <<rank, length of t it takes>>.
\* Of the repetitions of "hi" only those that leave one or two characters can
\* be followed by [A-G][#]? and the end of t.
RegisterAlternatives(t) ==
    LET most == LeadingHi(t)
    IN  (IF StartsWith(t, LOW) THEN {<<1, 3>>} ELSE {})
        \cup (IF StartsWith(t, LOWLOW) THEN {<<2, 6>>} ELSE {})
        \cup (IF StartsWith(t, LOWLOWLOW) THEN {<<3, 9>>} ELSE {})
        \cup (IF StartsWith(t, MID1) \/ StartsWith(t, MID2) THEN {<<4, 4>>} ELSE {})
        \cup {<<5 + (most - k), 2 * k>> :
                 k \in {x \in {(Len(t) - 2) \div 2, (Len(t) - 1) \div 2} :
                           x >= 1 /\ x <= most}}

\* mutant: the first alternative that matches a prefix of t is kept, with no
\* return to the later ones when the rest is not a class
AlternativeBodyFirstPrefix(t) ==
    LET alts == RegisterAlternatives(t)
    IN  IF alts = {} THEN NoCaptures
        ELSE LET a == CHOOSE x \in alts : \A y \in alts : x[1] <= y[1]
             IN  IF IsClassShape(SubSeq(t, a[2] + 1, Len(t)))
                 THEN [pitch_class |-> SubSeq(t, a[2] + 1, Len(t)),
                       octave |-> SubSeq(t, 1, a[2])]
                 ELSE NoCaptures

\* (?<octave>low|lowlow|lowlowlow|mid[12]|(hi)+)(?<pitch_class>[A-G][#]?) on the
\* whole of t: the first alternative after which the rest is a class wins
AlternativeBody(t) ==
    LET fits == {a \in RegisterAlternatives(t) : IsClassShape(SubSeq(t, a[2] + 1, Len(t)))}
    IN  IF fits = {} THEN NoCaptures
        ELSE LET a == CHOOSE x \in fits : \A y \in fits : x[1] <= y[1]
             IN  [pitch_class |-> SubSeq(t, a[2] + 1, Len(t)),
                  octave |-> SubSeq(t, 1, a[2])]

\* Regex::new(r"^(?<octave>low|lowlow|lowlowlow|mid[12]|(hi)+)(?<pitch_class>[A-G][#]?)$")
\*     .captures(s)
AlternativeCaptures(s) ==
    LET starts == {i \in 1..Len(s) : StartAllowed(s, i) /\ s[i] \in {"l", "m", "h"}}
        ends == {j \in 1..Len(s) : EndAllowed(s, j) /\ (IsAtoG(s[j]) \/ s[j] = "#")}
        spans == {sp \in starts \X ends :
                     /\ sp[1] <= sp[2]
                     /\ AlternativeBody(SubSeq(s, sp[1], sp[2])) # NoCaptures}
    IN  IF spans = {} THEN NoCaptures
        ELSE LET sp == FirstSpan(spans) IN AlternativeBody(SubSeq(s, sp[1], sp[2]))

-----------------------------------------------------------------------------
(* The two parsers. *)

\* str::to_uppercase of the letters the notations use
UpperChar(ch) ==
    CASE ch = "a" -> "A" [] ch = "b" -> "B" [] ch = "c" -> "C" [] ch = "d" -> "D"
      [] ch = "e" -> "E" [] ch = "f" -> "F" [] ch = "g" -> "G"
      [] OTHER -> ch

Uppercase(s) == [i \in 1..Len(s) |-> UpperChar(s[i])]

\* mutant: the text is upper-cased before it is matched
parse_scientific_pitch_notation_any_case(s) ==
    LET caps == ScientificCaptures(Uppercase(s))
    IN  IF caps = NoCaptures THEN ParsePitchError
        ELSE LET octave == parse_u8(caps.octave)
                 pitch_class == parse_pitch_class(caps.pitch_class)
             IN  IF octave = ParseIntError THEN ParsePitchError
                 ELSE IF pitch_class = ParsePitchClassError THEN ParsePitchError
                 ELSE OkPitch(Pitch(octave, pitch_class))

parse_scientific_pitch_notation(s) ==
    LET caps == ScientificCaptures(s)
    IN  IF caps = NoCaptures THEN ParsePitchError
        ELSE LET octave == parse_u8(caps.octave)
                 pitch_class == parse_pitch_class(caps.pitch_class)
             IN  IF octave = ParseIntError THEN ParsePitchError
                 ELSE IF pitch_class = ParsePitchClassError THEN ParsePitchError
                 ELSE OkPitch(Pitch(octave, pitch_class))

\* str::matches("hi").count(): the occurrences of "hi", which cannot overlap
CountHi(s) == Cardinality({i \in 1..(Len(s) - 1) : s[i] = "h" /\ s[i + 1] = "i"})

\* mutant: the "hi" units counted from mid2 + 2
base_octave_plus5(octave_str) ==
    CASE octave_str = LOWLOWLOW -> 0
      [] octave_str = LOWLOW -> 1
      [] octave_str = LOW -> 2
      [] octave_str = MID1 -> 3
      [] octave_str = MID2 -> 4
      [] OTHER -> IF CountHi(octave_str) = 0 THEN -1 ELSE CountHi(octave_str) + 5

\* the match on octave_str: a usize, or -1 for the early return on count == 0
base_octave(octave_str) ==
    CASE octave_str = LOWLOWLOW -> 0
      [] octave_str = LOWLOW -> 1
      [] octave_str = LOW -> 2
      [] octave_str = MID1 -> 3
      [] octave_str = MID2 -> 4
      [] OTHER -> IF CountHi(octave_str) = 0 THEN -1 ELSE CountHi(octave_str) + 4

\* mutant: the arm PitchClass::A left out
IsBOrASharp(pitch_class) == pitch_class \in {"ASharp", "B"}

\* the arm PitchClass::A | PitchClass::ASharp | PitchClass::B of both matches
IsABOrASharp(pitch_class) == pitch_class \in {"A", "ASharp", "B"}

\* base_octave - 1 in usize.  With overflow checks (the dev and test profiles)
\* 0 - 1 panics; without them (the release profile) it wraps.
SubOne(base) ==
    IF base >= 1 THEN {[panics |-> FALSE, value |-> base - 1]}
    ELSE {[panics |-> TRUE, value |-> 0],
          [panics |-> FALSE, value |-> (base - 1) % USIZE_MOD]}

\* mutant: the cast without the test before it
NarrowToU8Unchecked(octave, pitch_class) ==
    OkPitch(Pitch(octave % (U8_MAX + 1), pitch_class))

\* the test against u8::MAX and the cast octave as u8
NarrowToU8(octave, pitch_class) ==
    IF octave > U8_MAX THEN ParsePitchError
    ELSE OkPitch(Pitch(octave % (U8_MAX + 1), pitch_class))

\* Every outcome parse_alternative_pitch_notation(s) has under some build.
parse_alternative_pitch_notation(s) ==
    LET caps == AlternativeCaptures(s)
    IN  IF caps = NoCaptures THEN {ParsePitchError}
        ELSE LET pitch_class == parse_pitch_class(caps.pitch_class)
                 base == base_octave(caps.octave)
             IN  IF pitch_class = ParsePitchClassError THEN {ParsePitchError}
                 ELSE IF base = -1 THEN {ParsePitchError}
                 ELSE IF IsABOrASharp(pitch_class)
                      THEN {IF octave.panics THEN Panicked
                            ELSE NarrowToU8(octave.value, pitch_class) :
                                octave \in SubOne(base)}
                      ELSE {NarrowToU8(base, pitch_class)}

-----------------------------------------------------------------------------
(* The two renderings. *)

\* mutant: the two arguments of write! swapped
ScientificFmtOctaveFirst(p) == u8_to_string(p.octave) \o as_str(p.pitch_class)

\* <ScientificPitchNotation as Display>::fmt
ScientificFmt(p) == as_str(p.pitch_class) \o u8_to_string(p.octave)

\* mutant: the range 0..=k, one unit too many
HiTimesInclusive(k) == [i \in 1..(2 * (k + 1)) |-> <<"i", "h">>[(i % 2) + 1]]

\* for _ in 0..k { write!(f, "hi") }
HiTimes(k) == [i \in 1..(2 * k) |-> <<"i", "h">>[(i % 2) + 1]]

\* mutant: the sum taken in u8, without the widening to u16
RegisterOfInU8(p) ==
    IF IsABOrASharp(p.pitch_class) THEN (p.octave + 1) % (U8_MAX + 1) ELSE p.octave

\* mutant: the octave taken as the register for every class
RegisterOfUnshifted(p) == p.octave

\* the register of a pitch, a u16
RegisterOf(p) ==
    IF IsABOrASharp(p.pitch_class) THEN (p.octave + 1) % (2 ^ 16) ELSE p.octave

\* <AlternativePitchNotation as Display>::fmt
AlternativeFmt(p) ==
    LET o == RegisterOf(p)
        register == CASE o = 0 -> LOWLOWLOW
                      [] o = 1 -> LOWLOW
                      [] o = 2 -> LOW
                      [] o = 3 -> MID1
                      [] o = 4 -> MID2
                      [] OTHER -> HiTimes(o - 4)
    IN  register \o as_str(p.pitch_class)

-----------------------------------------------------------------------------
(* PitchWithFormat::from_str and main. *)

\* the first half of from_str: the scientific parser's result decides
FromStrAfterScientific(r) ==
    IF r.kind = "Ok" THEN OkPitchWithFormat(r.pitch, ScientificPitchNotation)
    ELSE FromStrNotCalled

\* the second half of from_str, reached when the scientific parser failed
FromStrAfterAlternative(r) ==
    CASE r.kind = "Ok" -> OkPitchWithFormat(r.pitch, AlternativePitchNotation)
      [] r.kind = "panic" -> FromStrPanicked
      [] OTHER -> FromStrError

\* mutant: the two arms of the match swapped
PrintedSameNotation(pwf) ==
    (IF pwf.format = ScientificPitchNotation
     THEN ScientificFmt(pwf.pitch)
     ELSE AlternativeFmt(pwf.pitch)) \o <<Newline>>

\* the match of main on the detected format, and println!
Printed(pwf) ==
    (IF pwf.format = ScientificPitchNotation
     THEN AlternativeFmt(pwf.pitch)
     ELSE ScientificFmt(pwf.pitch)) \o <<Newline>>

-----------------------------------------------------------------------------
(* The inputs. *)

Pitches == {Pitch(o, c) : o \in 0..U8_MAX, c \in PitchClasses}

Spellings == {as_str(c) : c \in PitchClasses}

\* k "hi" units
HiRun(k) == [i \in 1..(2 * k) |-> IF i % 2 = 1 THEN "h" ELSE "i"]

\* what may stand where a class spelling is expected
ClassLike ==
    Spellings \cup {<<"E", "#">>, <<"B", "#">>, <<"H">>, <<"c">>, <<"a", "#">>,
                    <<"C", "#", "#">>, <<"C", "b">>, <<>>}

\* what may stand where an octave number is expected
DigitRuns ==
    {u8_to_string(n) : n \in 0..MaxNum}
    \cup {<<"0", "0">>, <<"0", "1">>, RUN1000, RUN2550,
          RUN99999, RUN20,
          <<"1", NonAsciiDigit>>, <<NonAsciiDigit>>, <<"-", "1">>, <<"+", "1">>,
          <<"4", " ">>, <<"4", Newline>>}

\* what may stand where a register is expected
RegisterLike ==
    {LOWLOWLOW, LOWLOW, LOW, MID1, MID2,
     LOWLOWLOW \o LOW, MID3, MID, HIGH, <<"H", "i">>,
     LOW \o HiRun(1), MID2 \o HiRun(1), HiRun(1) \o MID1, <<"h", "i", "h">>,
     <<" ">> \o LOW}

Alphabet == {"h", "i", "A", "C", "#", "0", "2", "c"}

RECURSIVE StringsUpTo(_)
StringsUpTo(n) ==
    IF n = 0 THEN {<<>>}
    ELSE LET shorter == StringsUpTo(n - 1)
         IN  shorter \cup {Append(s, ch) : s \in shorter, ch \in Alphabet}

\* str::to_lowercase of the letters the notations use
LowerChar(ch) ==
    CASE ch = "A" -> "a" [] ch = "B" -> "b" [] ch = "C" -> "c" [] ch = "D" -> "d"
      [] ch = "E" -> "e" [] ch = "F" -> "f" [] ch = "G" -> "g" [] ch = "H" -> "h"
      [] OTHER -> ch

Lowercase(s) == [i \in 1..Len(s) |-> LowerChar(s[i])]

\* the strings PitchClass::from_str is called with
ClassInputs ==
    ClassLike
    \cup {Lowercase(c) : c \in Spellings}
    \cup {<<"C", " ">>, <<" ", "C">>, <<"C", "4">>, <<"#">>, <<"#", "C">>, INVALID}
    \cup StringsUpTo(MaxLen)

Inputs ==
    {c \o d : c \in ClassLike, d \in DigitRuns}
    \cup {r \o c : r \in RegisterLike, c \in ClassLike}
    \cup {HiRun(k) \o c : k \in 1..MaxHi, c \in Spellings \cup {<<"E", "#">>, <<"c">>}}
    \cup {r \o c \o d : r \in {HiRun(1), MID2, LOW}, c \in {<<"C">>, <<"A", "#">>},
                        d \in {<<"4">>, <<" ">>, <<Newline>>}}
    \cup {INVALID, <<" ", "C", "4">>, HiRun(1) \o <<" ", "C">>}
    \cup {<<"c", "4">>, <<"h", "i", "c">>, <<"c", "#", "4">>, MID2 \o <<"a">>}
    \cup {r \o <<"B", "#">> : r \in {HiRun(1), MID1, LOWLOWLOW}}
    \cup StringsUpTo(MaxLen)

\* the pitches a Pitch p is compared with: those of its own octave and of
\* the octaves next to it
Comparands(p) ==
    {Pitch(o, c) : o \in {p.octave - 1, p.octave, p.octave + 1} \cap 0..U8_MAX,
                   c \in PitchClasses}

-----------------------------------------------------------------------------
(* The state machine. *)

Init ==
    /\ \/ /\ pc = "from_str"
          /\ input \in Inputs
          /\ pitch0 = NoPitch
       \/ /\ pc = "render"
          /\ input = <<>>
          /\ pitch0 \in Pitches
       \/ /\ pc = "pitch_class_from_str"
          /\ input \in ClassInputs
          /\ pitch0 = NoPitch
    /\ class = ClassNotCalled
    /\ cmp = NotCompared
    /\ sci = NotCalled
    /\ alt = NotCalled
    /\ result = FromStrNotCalled
    /\ output = <<>>

\* pitch.scientific_pitch_notation().to_string(), handed on to from_str
RenderScientific ==
    /\ pc = "render"
    /\ input' = ScientificFmt(pitch0)
    /\ pc' = "from_str"
    /\ UNCHANGED <<pitch0, sci, alt, result, class, cmp, output>>

\* pitch.alternative_pitch_notation().to_string(), handed on to from_str
RenderAlternative ==
    /\ pc = "render"
    /\ input' = AlternativeFmt(pitch0)
    /\ pc' = "from_str"
    /\ UNCHANGED <<pitch0, sci, alt, result, class, cmp, output>>

\* from_str, its first if let
TryScientific ==
    /\ pc = "from_str"
    /\ sci' = parse_scientific_pitch_notation(input)
    /\ result' = FromStrAfterScientific(sci')
    /\ pc' = IF sci'.kind = "Ok" THEN "returned" ELSE "try_alternative"
    /\ UNCHANGED <<input, pitch0, alt, class, cmp, output>>

\* from_str, its second if let and the final Err
TryAlternative ==
    /\ pc = "try_alternative"
    /\ alt' \in parse_alternative_pitch_notation(input)
    /\ result' = FromStrAfterAlternative(alt')
    /\ pc' = IF alt'.kind = "panic" THEN "overflow_panic" ELSE "returned"
    /\ UNCHANGED <<input, pitch0, sci, class, cmp, output>>

\* main from the unwrap of the parse on: an Err panics, an Ok is printed in
\* the other notation
Main ==
    /\ pc = "returned"
    /\ pitch0 = NoPitch
    /\ IF result.kind = "Ok"
       THEN /\ output' = Printed(result)
            /\ pc' = "done"
       ELSE /\ output' = output
            /\ pc' = "unwrap_panic"
    /\ UNCHANGED <<input, pitch0, sci, alt, result, class, cmp>>

\* <Pitch as Ord>::cmp, pitch0 against a Pitch at most one octave away
PitchCmp ==
    /\ pc = "render"
    /\ \E other \in Comparands(pitch0) :
           cmp' = [other |-> other, ordering |-> pitch_cmp(pitch0, other)]
    /\ pc' = "compared"
    /\ UNCHANGED <<input, pitch0, sci, alt, result, class, output>>

\* <PitchClass as FromStr>::from_str
PitchClassFromStr ==
    /\ pc = "pitch_class_from_str"
    /\ class' = parse_pitch_class(input)
    /\ pc' = "pitch_class_returned"
    /\ UNCHANGED <<input, pitch0, sci, alt, result, cmp, output>>

Next ==
    \/ PitchCmp
    \/ PitchClassFromStr
    \/ RenderScientific
    \/ RenderAlternative
    \/ TryScientific
    \/ TryAlternative
    \/ Main

Spec == Init /\ [][Next]_vars

-----------------------------------------------------------------------------
(* What the claims' formulas share: a string taken apart the way the        *)
(* notations are described, not the way the code matches it.               *)

ABOrASharp == {"A", "ASharp", "B"}

\* the class spelled by the text c
ClassSpelled(c) == CHOOSE x \in PitchClasses : as_str(x) = c

\* the end of s that would be its class spelling: two characters when s ends in #
ClassEnd(s) ==
    IF Len(s) >= 2 /\ s[Len(s)] = "#" THEN SubSeq(s, Len(s) - 1, Len(s))
    ELSE SubSeq(s, Len(s), Len(s))

\* what stands in s before ClassEnd(s)
RegisterPart(s) == SubSeq(s, 1, Len(s) - Len(ClassEnd(s)))

\* r is k "hi" units
IsHiUnits(r, k) ==
    /\ Len(r) = 2 * k
    /\ \A i \in 1..k : r[2 * i - 1] = "h" /\ r[2 * i] = "i"

\* r is the register token of base octave n
IsRegisterToken(r, n) ==
    CASE n = 0 -> r = LOWLOWLOW
      [] n = 1 -> r = LOWLOW
      [] n = 2 -> r = LOW
      [] n = 3 -> r = MID1
      [] n = 4 -> r = MID2
      [] OTHER -> n > 4 /\ IsHiUnits(r, n - 4)

\* the only base octave a register token r can stand for
BaseCandidate(r) ==
    CASE r = LOWLOWLOW -> 0
      [] r = LOWLOW -> 1
      [] r = LOW -> 2
      [] r = MID1 -> 3
      [] r = MID2 -> 4
      [] OTHER -> 4 + (Len(r) \div 2)

\* s is a register token followed by a class spelling
IsRegisterAndClass(s) ==
    /\ Len(s) >= 3
    /\ ClassEnd(s) \in Spellings
    /\ IsRegisterToken(RegisterPart(s), BaseCandidate(RegisterPart(s)))

-----------------------------------------------------------------------------
(* C1 *)

C1_Inputs ==
    {LOWLOWLOW \o <<"A">>, LOWLOWLOW \o <<"A", "#">>, LOWLOWLOW \o <<"B">>}

\* C1: parsing lowlowlowA, lowlowlowA# or lowlowlowB fails cleanly: the
\* alternative parser, and so from_str, returns ParsePitchError; it does not
\* panic and produces no Pitch.
C1_LowestRegisterFailsCleanly ==
    (input \in C1_Inputs /\ alt # NotCalled)
        => (alt = ParsePitchError /\ result = FromStrError)

-----------------------------------------------------------------------------
(* C2 *)

\* C2: for every Pitch p (octave 0..255, any class), from_str of p's alternative
\* rendering returns Ok with pitch p and format AlternativePitchNotation.
C2_AlternativeRoundTrip ==
    (/\ pitch0 # NoPitch
     /\ pc \in {"returned", "overflow_panic"}
     /\ input = AlternativeFmt(pitch0))
        => result = OkPitchWithFormat(pitch0, AlternativePitchNotation)

C2_Witness ==
    /\ pitch0 = Pitch(U8_MAX, "B")
    /\ pc = "returned"
    /\ Len(input) = 505
    /\ result = OkPitchWithFormat(Pitch(U8_MAX, "B"), AlternativePitchNotation)

-----------------------------------------------------------------------------
(* C3 *)

\* C3: for every Pitch p (octave 0..255, any class), from_str of p's scientific
\* rendering returns Ok with pitch p and format ScientificPitchNotation.
C3_ScientificRoundTrip ==
    (/\ pitch0 # NoPitch
     /\ pc \in {"try_alternative", "returned", "overflow_panic"}
     /\ input = ScientificFmt(pitch0))
        => (/\ pc = "returned"
            /\ result = OkPitchWithFormat(pitch0, ScientificPitchNotation))

C3_Witness ==
    /\ pitch0 = Pitch(U8_MAX, "ASharp")
    /\ pc = "returned"
    /\ input = <<"A", "#", "2", "5", "5">>
    /\ result = OkPitchWithFormat(Pitch(U8_MAX, "ASharp"), ScientificPitchNotation)

-----------------------------------------------------------------------------
(* C4 *)

\* C4: an accepted alternative string made of register token r and class
\* spelling c parses to class c and to octave base(r), or base(r) - 1 when c is
\* A, A# or B, with base(lowlowlow) = 0, base(lowlow) = 1, base(low) = 2,
\* base(mid1) = 3, base(mid2) = 4 and base(k "hi" units) = 4 + k.
C4_AlternativeParseArithmetic ==
    (alt.kind = "Ok" /\ IsRegisterAndClass(input))
        => LET c == ClassSpelled(ClassEnd(input))
               base == BaseCandidate(RegisterPart(input))
           IN  /\ alt.pitch.pitch_class = c
               /\ alt.pitch.octave = IF c \in ABOrASharp THEN base - 1 ELSE base

C4_Witness ==
    /\ input = <<"h", "i", "h", "i", "h", "i", "A", "#">>
    /\ alt = OkPitch(Pitch(6, "ASharp"))

-----------------------------------------------------------------------------
(* C5 *)

\* text is the register token of p's register followed by the spelling of
\* p's class, the register being the octave, plus one for A, A#, B
C5_IsRendering(text, p) ==
    /\ Len(text) > Len(as_str(p.pitch_class))
    /\ ClassEnd(text) = as_str(p.pitch_class)
    /\ IsRegisterToken(RegisterPart(text),
                       IF p.pitch_class \in ABOrASharp THEN p.octave + 1 ELSE p.octave)

\* C5: the alternative rendering of a Pitch (o, c) is the register token of n
\* followed by the spelling of c, where n = o + 1 for A, A#, B and n = o
\* otherwise; the token is lowlowlow, lowlow, low, mid1, mid2 for n = 0..4 and
\* n - 4 "hi" units for n > 4.  Stated of the line main prints for a scientific
\* input, and of the text handed to from_str after an alternative rendering.
C5_AlternativeRenderArithmetic ==
    /\ (pc = "done" /\ result.format = ScientificPitchNotation)
           => /\ output # <<>>
              /\ output[Len(output)] = Newline
              /\ C5_IsRendering(SubSeq(output, 1, Len(output) - 1), result.pitch)
    /\ (pitch0 # NoPitch /\ pc = "from_str" /\ ~IsAtoG(input[1]))
           => C5_IsRendering(input, pitch0)

C5_Witness ==
    /\ pc = "done"
    /\ result = OkPitchWithFormat(Pitch(U8_MAX, "A"), ScientificPitchNotation)
    /\ Len(output) = 506
    /\ output[504] = "i"
    /\ output[505] = "A"

-----------------------------------------------------------------------------
(* C6 *)

\* the start of s that would be its class spelling
ClassStart(s) ==
    IF Len(s) >= 2 /\ s[2] = "#" THEN SubSeq(s, 1, 2) ELSE SubSeq(s, 1, 1)

\* what stands in s after ClassStart(s)
OctavePart(s) == SubSeq(s, Len(ClassStart(s)) + 1, Len(s))

\* d is a run of ASCII digits without a leading zero (or the text "0")
IsDecimalNumber(d) ==
    /\ d # <<>>
    /\ \A i \in 1..Len(d) : d[i] \in {AsciiDigits[k] : k \in 1..10}
    /\ d = <<"0">> \/ d[1] # "0"

\* the number d denotes, for a d of at most three digits
ValueOfShort(d) ==
    CASE Len(d) = 1 -> DigitValue(d[1])
      [] Len(d) = 2 -> 10 * DigitValue(d[1]) + DigitValue(d[2])
      [] Len(d) = 3 -> 100 * DigitValue(d[1]) + 10 * DigitValue(d[2]) + DigitValue(d[3])

\* d, without a leading zero, denotes a number of at most 255
DenotesAtMostU8Max(d) == Len(d) <= 3 /\ ValueOfShort(d) <= 255

\* C6: a class spelling followed by a decimal number n of any length, without
\* a leading zero, parses as scientific notation with octave n if n <= 255 and
\* fails with ParsePitchError otherwise: no truncated or wrapped octave.
C6_ScientificOctaveCeiling ==
    (/\ sci # NotCalled
     /\ input # <<>>
     /\ ClassStart(input) \in Spellings
     /\ IsDecimalNumber(OctavePart(input)))
        => IF DenotesAtMostU8Max(OctavePart(input))
           THEN sci = OkPitch(Pitch(ValueOfShort(OctavePart(input)),
                                    ClassSpelled(ClassStart(input))))
           ELSE sci = ParsePitchError

\* C256 is drawn and rejected, after C255 was accepted with octave 255
C6_Witness ==
    /\ input = <<"C", "2", "5", "6">>
    /\ sci = ParsePitchError
    /\ parse_scientific_pitch_notation(<<"C", "2", "5", "5">>) = OkPitch(Pitch(255, "C"))

-----------------------------------------------------------------------------
(* C7 *)

\* C7: k >= 1 "hi" units followed by a class spelling are accepted if and only
\* if the octave fits in 0..255: k <= 251 for the classes other than A, A#, B,
\* k <= 252 for A, A#, B; beyond that the parser returns ParsePitchError, not
\* an octave cut to 8 bits.
C7_AlternativeOctaveCeiling ==
    (/\ alt # NotCalled
     /\ Len(input) >= 3
     /\ ClassEnd(input) \in Spellings
     /\ IsHiUnits(RegisterPart(input), Len(RegisterPart(input)) \div 2))
        => LET k == Len(RegisterPart(input)) \div 2
               c == ClassSpelled(ClassEnd(input))
               most == IF c \in ABOrASharp THEN 252 ELSE 251
           IN  IF k <= most
               THEN alt = OkPitch(Pitch(IF c \in ABOrASharp THEN k + 3 ELSE k + 4, c))
               ELSE alt = ParsePitchError

\* 252 units and C: octave 256, rejected
C7_Witness ==
    /\ Len(input) = 505
    /\ IsHiUnits(RegisterPart(input), 252)
    /\ ClassEnd(input) = <<"C">>
    /\ alt = ParsePitchError

-----------------------------------------------------------------------------
(* C8 *)

\* C8: from_str returns (pitch, ScientificPitchNotation) when the scientific
\* grammar accepts the string, otherwise (pitch, AlternativePitchNotation) when
\* the alternative grammar accepts it, otherwise Err(ParsePitchError); the
\* pitch is the one of the grammar that matched.
C8_FormatDetection ==
    (pc \in {"returned", "overflow_panic", "unwrap_panic", "done"})
        => result = (IF sci.kind = "Ok"
                     THEN OkPitchWithFormat(sci.pitch, ScientificPitchNotation)
                     ELSE IF alt.kind = "Ok"
                     THEN OkPitchWithFormat(alt.pitch, AlternativePitchNotation)
                     ELSE FromStrError)

-----------------------------------------------------------------------------
(* C9 *)

\* what from_str would return with the alternative grammar tried first
FromStrAlternativeFirst(s) ==
    {CASE a.kind = "Ok" -> OkPitchWithFormat(a.pitch, AlternativePitchNotation)
       [] a.kind = "panic" -> FromStrPanicked
       [] OTHER -> LET r == parse_scientific_pitch_notation(s)
                   IN  IF r.kind = "Ok"
                       THEN OkPitchWithFormat(r.pitch, ScientificPitchNotation)
                       ELSE FromStrError :
        a \in parse_alternative_pitch_notation(s)}

\* what from_str returns
FromStrScientificFirst(s) ==
    LET r == parse_scientific_pitch_notation(s)
    IN  IF r.kind = "Ok" THEN {OkPitchWithFormat(r.pitch, ScientificPitchNotation)}
        ELSE {FromStrAfterAlternative(a) : a \in parse_alternative_pitch_notation(s)}

\* C9: no string is accepted by both parsers, and from_str would return the
\* same with the alternative grammar tried first.  Checked once for every
\* string from_str is called with, when its first parser has returned.
C9_Disjointness ==
    (pc \in {"try_alternative", "returned"} /\ alt = NotCalled)
        => /\ ~(/\ sci.kind = "Ok"
                /\ \E a \in parse_alternative_pitch_notation(input) : a.kind = "Ok")
           /\ FromStrAlternativeFirst(input) = FromStrScientificFirst(input)

\* a string of each notation has been through from_str
C9_Witness ==
    /\ pc = "returned"
    /\ alt = NotCalled
    /\ input = <<"C", "4">>
    /\ sci = OkPitch(Pitch(4, "C"))
    /\ parse_alternative_pitch_notation(input) = {ParsePitchError}
    /\ parse_alternative_pitch_notation(MID2 \o <<"C">>) = {OkPitch(Pitch(4, "C"))}
    /\ parse_scientific_pitch_notation(MID2 \o <<"C">>) = ParsePitchError

-----------------------------------------------------------------------------
(* C10 *)

\* the notations from_str finds in the text
NotationsOf(text) ==
    {r.format : r \in {x \in FromStrScientificFirst(text) : x.kind = "Ok"}}

\* C10: for an accepted input main prints the alternative rendering of the
\* parsed pitch when the detected format is ScientificPitchNotation and the
\* scientific rendering when it is AlternativePitchNotation; the printed
\* string is in the other notation than the input.
C10_PrintsOtherNotation ==
    (pc = "done")
        => LET line == SubSeq(output, 1, Len(output) - 1)
           IN  /\ output = line \o <<Newline>>
               /\ result.format = ScientificPitchNotation
                      => /\ line = AlternativeFmt(result.pitch)
                         /\ NotationsOf(line) = {AlternativePitchNotation}
               /\ result.format = AlternativePitchNotation
                      => /\ line = ScientificFmt(result.pitch)
                         /\ NotationsOf(line) = {ScientificPitchNotation}
               /\ NotationsOf(input) = {result.format}

C10_Witness ==
    /\ pc = "done"
    /\ input = <<"h", "i", "A">>
    /\ result = OkPitchWithFormat(Pitch(4, "A"), AlternativePitchNotation)
    /\ output = <<"A", "4", Newline>>

-----------------------------------------------------------------------------
(* C11 *)

\* the correspondences: <<scientific text, alternative text, pitch>>
C11_Cases ==
    {<<<<"C", "0">>, LOWLOWLOW \o <<"C">>, Pitch(0, "C")>>,
     <<<<"A", "0">>, LOWLOW \o <<"A">>, Pitch(0, "A")>>,
     <<<<"C", "4">>, MID2 \o <<"C">>, Pitch(4, "C")>>,
     <<<<"A", "4">>, <<"h", "i", "A">>, Pitch(4, "A")>>,
     <<<<"A", "5">>, <<"h", "i", "h", "i", "A">>, Pitch(5, "A")>>}

\* C11: C0 <-> lowlowlowC (octave 0, C), A0 <-> lowlowA (octave 0, A),
\* C4 <-> mid2C (octave 4, C), A4 <-> hiA (octave 4, A), A5 <-> hihiA
\* (octave 5, A): each text parses to the stated pitch in its own notation and
\* main prints the other text for it.
C11_ConcreteCorrespondences ==
    \A case \in C11_Cases :
        /\ (input = case[1] /\ pc \in {"returned", "done", "unwrap_panic", "overflow_panic"})
               => /\ result = OkPitchWithFormat(case[3], ScientificPitchNotation)
                  /\ pc = "done" => output = case[2] \o <<Newline>>
        /\ (input = case[2] /\ pc \in {"returned", "done", "unwrap_panic", "overflow_panic"})
               => /\ result = OkPitchWithFormat(case[3], AlternativePitchNotation)
                  /\ pc = "done" => output = case[1] \o <<Newline>>

C11_Witness ==
    /\ pc = "done"
    /\ input = <<"A", "5">>
    /\ result = OkPitchWithFormat(Pitch(5, "A"), ScientificPitchNotation)
    /\ output = <<"h", "i", "h", "i", "A", Newline>>

-----------------------------------------------------------------------------
(* C12 *)

\* the twelve spellings, in the order of the variants
C12_Spellings ==
    <<<<"C">>, <<"C", "#">>, <<"D">>, <<"D", "#">>, <<"E">>, <<"F">>,
      <<"F", "#">>, <<"G">>, <<"G", "#">>, <<"A">>, <<"A", "#">>, <<"B">>>>

\* C12: for each of the 12 PitchClass values p, parse_pitch_class(p.as_str())
\* is Ok(p); the 12 spellings are pairwise distinct and are C, C#, D, D#, E,
\* F, F#, G, G#, A, A#, B.  Stated of every call of PitchClass::from_str with
\* one of these spellings, and of the spelling a rendering of a Pitch begins
\* or ends with.
C12_ClassCodecRoundTrip ==
    /\ pc = "pitch_class_returned"
           => \A i \in 1..12 :
                  /\ as_str(PitchClass[i]) = C12_Spellings[i]
                  /\ \A j \in 1..12 :
                         i # j => as_str(PitchClass[i]) # as_str(PitchClass[j])
    /\ pc = "pitch_class_returned"
           => \A i \in 1..12 : input = as_str(PitchClass[i]) => class = PitchClass[i]
    /\ (pitch0 # NoPitch /\ pc = "from_str")
           => \/ ClassStart(input) = as_str(pitch0.pitch_class)
              \/ ClassEnd(input) = as_str(pitch0.pitch_class)

C12_Witness ==
    /\ pc = "pitch_class_returned"
    /\ input = <<"A", "#">>
    /\ class = "ASharp"

-----------------------------------------------------------------------------
(* C13 *)

\* C13: parse_pitch_class returns Err(ParsePitchClassError) for every string
\* that is not one of the 12 spellings: lowercase variants (c, c#), sharps of
\* letters that have none (E#, B#), unknown letters (H), flats and double
\* accidentals (Cb, C##), the empty string.
C13_ClassCodecRejects ==
    /\ (pc = "pitch_class_returned"
        /\ \A i \in 1..12 : input # C12_Spellings[i])
           => class = ParsePitchClassError
    /\ (pc = "pitch_class_returned"
        /\ input \in {<<"c">>, <<"c", "#">>, <<"E", "#">>, <<"B", "#">>, <<"H">>,
                      <<"C", "b">>, <<"C", "#", "#">>, <<>>})
           => class = ParsePitchClassError

C13_Witness ==
    /\ pc = "pitch_class_returned"
    /\ input = <<"c", "#">>
    /\ class = ParsePitchClassError

-----------------------------------------------------------------------------
(* C14 *)

\* C14: for every string s accepted by the scientific or the alternative
\* grammar, the lower-cased s is rejected by parse_scientific_pitch_notation
\* and by parse_alternative_pitch_notation, hence by from_str; 'c4' and 'hic'
\* fail.
C14_CaseSensitivity ==
    /\ (pc = "returned" /\ result.kind = "Ok")
           => /\ Lowercase(input) # input
              /\ parse_scientific_pitch_notation(Lowercase(input)) = ParsePitchError
              /\ parse_alternative_pitch_notation(Lowercase(input)) = {ParsePitchError}
    /\ (pc \in {"returned", "unwrap_panic", "done", "overflow_panic"}
        /\ input \in {<<"c", "4">>, <<"h", "i", "c">>})
           => /\ sci = ParsePitchError
              /\ alt = ParsePitchError
              /\ result = FromStrError

C14_Witness ==
    /\ pc = "unwrap_panic"
    /\ input = <<"c", "4">>
    /\ result = FromStrError
    /\ parse_scientific_pitch_notation(Uppercase(input)) = OkPitch(Pitch(4, "C"))

-----------------------------------------------------------------------------
(* C15 *)

\* C15: parse_scientific_pitch_notation accepts only a canonical class
\* spelling immediately followed by '0' or a digit run starting with 1-9; it
\* rejects leading zeros (C00, C01), a sign (B-1, C+1), a missing octave (C),
\* a class the codec rejects (E#4, B#4), and any leading or trailing extra
\* character, whitespace and a trailing newline included ('C4 ', ' C4',
\* 'C4\n').
C15_ScientificGrammarShape ==
    /\ sci.kind = "Ok"
           => /\ input # <<>>
              /\ ClassStart(input) \in Spellings
              /\ IsDecimalNumber(OctavePart(input))
    /\ (sci # NotCalled
        /\ input \in {<<"C", "0", "0">>, <<"C", "0", "1">>, <<"B", "-", "1">>,
                      <<"C", "+", "1">>, <<"C">>, <<"E", "#", "4">>,
                      <<"B", "#", "4">>, <<"C", "4", " ">>, <<" ", "C", "4">>,
                      <<"C", "4", Newline>>})
           => sci = ParsePitchError

C15_Witness ==
    /\ input = <<"C", "0", "1">>
    /\ sci = ParsePitchError
    /\ parse_scientific_pitch_notation(<<"C", "1">>) = OkPitch(Pitch(1, "C"))

-----------------------------------------------------------------------------
(* C16 *)

\* C16: every failure of PitchWithFormat::from_str (no grammar shape matched,
\* octave digits out of the 8-bit range, a class spelling the codec rejects
\* such as E#4 or hiB#, alternative octave overflow or underflow) is reported
\* as the one ParsePitchError value, and no partial Pitch is returned.
C16_UnifiedError ==
    (pc \in {"returned", "overflow_panic", "unwrap_panic", "done"}
     /\ (\/ result.kind # "Ok"
         \/ input \in {INVALID, <<"C", "2", "5", "6">>, <<"E", "#", "4">>,
                       <<"h", "i", "B", "#">>, HiRun(252) \o <<"C">>,
                       LOWLOWLOW \o <<"A">>}))
        => /\ result = FromStrError
           /\ result.pitch = NoPitch

-----------------------------------------------------------------------------
(* C17 *)

\* the octave the alternative text s denotes, computed in the integers
C17_AlternativeOctave(s) ==
    IF ClassSpelled(ClassEnd(s)) \in ABOrASharp
    THEN BaseCandidate(RegisterPart(s)) - 1
    ELSE BaseCandidate(RegisterPart(s))

\* C17: every Pitch returned by parse_scientific_pitch_notation,
\* parse_alternative_pitch_notation or PitchWithFormat::from_str has an octave
\* in 0..255 equal to the octave computed without truncation and a
\* pitch_class among the 12 values; the narrowing cast of the alternative
\* parser is never applied to a value above 255.
C17_PitchValidity ==
    /\ sci.kind = "Ok"
           => /\ sci.pitch.octave \in 0..U8_MAX
              /\ sci.pitch.pitch_class \in PitchClasses
              /\ Len(OctavePart(input)) <= 3
              /\ sci.pitch.octave = ValueOfShort(OctavePart(input))
    /\ alt.kind = "Ok"
           => /\ alt.pitch.octave \in 0..U8_MAX
              /\ alt.pitch.pitch_class \in PitchClasses
              /\ IsRegisterAndClass(input)
              /\ C17_AlternativeOctave(input) <= U8_MAX
              /\ alt.pitch.octave = C17_AlternativeOctave(input)
    /\ result.kind = "Ok"
           => /\ result.pitch.octave \in 0..U8_MAX
              /\ result.pitch.pitch_class \in PitchClasses
              /\ result.pitch \in {sci.pitch, alt.pitch}
    /\ (alt # NotCalled /\ IsRegisterAndClass(input)
        /\ C17_AlternativeOctave(input) \notin 0..U8_MAX)
           => alt.kind # "Ok"

\* 253 units and A: octave 256, no Pitch; 252 units and A give octave 255
C17_Witness ==
    /\ input = HiRun(253) \o <<"A">>
    /\ alt = ParsePitchError
    /\ parse_alternative_pitch_notation(HiRun(252) \o <<"A">>) = {OkPitch(Pitch(U8_MAX, "A"))}

-----------------------------------------------------------------------------
(* C18 *)

\* the place of a class in C < C# < D < D# < E < F < F# < G < G# < A < A# < B
C18_Index(c) == (CHOOSE i \in 1..12 : C12_Spellings[i] = as_str(c)) - 1

\* 12 * octave + index
C18_Rank(p) == 12 * p.octave + C18_Index(p.pitch_class)

\* C18: the ordering on Pitch compares octave first and pitch class second,
\* the classes ordered C < C# < D < D# < E < F < F# < G < G# < A < A# < B:
\* p < q if and only if 12*p.octave + index(p.pitch_class) is less than
\* 12*q.octave + index(q.pitch_class).
C18_PitchOrdering ==
    pc = "compared"
        => /\ (cmp.ordering = Less) <=> (C18_Rank(pitch0) < C18_Rank(cmp.other))
           /\ (cmp.ordering = Equal) <=> (pitch0 = cmp.other)
           /\ (cmp.ordering = Greater) <=> (C18_Rank(pitch0) > C18_Rank(cmp.other))
           /\ pitch0.octave < cmp.other.octave => cmp.ordering = Less
           /\ pitch0.octave > cmp.other.octave => cmp.ordering = Greater
           /\ pitch0.octave = cmp.other.octave
                  => (cmp.ordering = Less
                          <=> C18_Index(pitch0.pitch_class) < C18_Index(cmp.other.pitch_class))

\* B of one octave is below C of the next
C18_Witness ==
    /\ pc = "compared"
    /\ pitch0 = Pitch(3, "B")
    /\ cmp = [other |-> Pitch(4, "C"), ordering |-> Less]

-----------------------------------------------------------------------------
(* C19 *)

\* C19: for no Pitch of class A, A# or B, whatever its octave in 0..255, does
\* the alternative rendering start with the register lowlowlow; the lowest
\* register rendered for A, A#, B is lowlow, for octave 0; and no string
\* parses to a pitch below octave 0.
C19_NoUnderflowOnRender ==
    /\ (pitch0 # NoPitch /\ pc = "from_str" /\ ~IsAtoG(input[1])
        /\ pitch0.pitch_class \in ABOrASharp)
           => /\ ~StartsWith(input, LOWLOWLOW)
              /\ pitch0.octave = 0 <=> RegisterPart(input) = LOWLOW
    /\ (pc = "done" /\ result.format = ScientificPitchNotation
        /\ result.pitch.pitch_class \in ABOrASharp)
           => /\ ~StartsWith(output, LOWLOWLOW)
              /\ result.pitch.octave = 0 <=> StartsWith(output, LOWLOW)
    /\ sci.kind = "Ok" => sci.pitch.octave >= 0
    /\ alt.kind = "Ok" => alt.pitch.octave >= 0
    /\ result.kind = "Ok" => result.pitch.octave >= 0
    /\ (alt # NotCalled /\ input \in C1_Inputs) => alt.kind # "Ok"

\* A of octave 0 renders as lowlowA
C19_Witness ==
    /\ pitch0 = Pitch(0, "A")
    /\ pc = "from_str"
    /\ input = LOWLOW \o <<"A">>

-----------------------------------------------------------------------------
(* C20 *)

\* C20: for a Pitch with octave 255 and class A, A# or B the register is
\* computed as 256, in a type wider than 8 bits, and the alternative
\* rendering is exactly 252 "hi" units followed by the class spelling, never
\* wrapping to register 0 (lowlowlow); for octave 255 with any other class it
\* is exactly 251 "hi" units followed by the class spelling.
C20_TopOfRangeRendering ==
    /\ (pitch0 # NoPitch /\ pitch0.octave = U8_MAX)
           => RegisterOf(pitch0) = (IF pitch0.pitch_class \in ABOrASharp THEN 256 ELSE 255)
    /\ (pitch0 # NoPitch /\ pitch0.octave = U8_MAX
        /\ pc = "from_str" /\ ~IsAtoG(input[1]))
           => LET k == IF pitch0.pitch_class \in ABOrASharp THEN 252 ELSE 251
              IN  /\ ~StartsWith(input, LOWLOWLOW)
                  /\ Len(input) = 2 * k + Len(as_str(pitch0.pitch_class))
                  /\ IsHiUnits(SubSeq(input, 1, 2 * k), k)
                  /\ SubSeq(input, 2 * k + 1, Len(input)) = as_str(pitch0.pitch_class)
    /\ (pc = "done" /\ result.format = ScientificPitchNotation
        /\ result.pitch.octave = U8_MAX)
           => LET c == result.pitch.pitch_class
                  k == IF c \in ABOrASharp THEN 252 ELSE 251
              IN  /\ ~StartsWith(output, LOWLOWLOW)
                  /\ output = HiRun(k) \o as_str(c) \o <<Newline>>

\* B of octave 255 renders as 252 units and B
C20_Witness ==
    /\ pitch0 = Pitch(U8_MAX, "B")
    /\ pc = "from_str"
    /\ input = HiRun(252) \o <<"B">>

-----------------------------------------------------------------------------
(* C21 *)

\* the three registers of which one is a prefix of the next, with the base
\* octave of each
C21_Registers == {<<LOW, 2>>, <<LOWLOW, 1>>, <<LOWLOWLOW, 0>>}

\* C21: register tokens that are prefixes of one another are resolved by the
\* whole string: low + class parses with base octave 2, lowlow + class with
\* base octave 1 and lowlowlow + class with base octave 0, for every class
\* spelling, although the pattern lists low before lowlow and lowlowlow.
\* Stated of the register the pattern captures, of the base octave computed
\* from it, and of the Pitch returned wherever base octave and class give an
\* octave of at least 0.
C21_PrefixRegistersResolved ==
    \A rn \in C21_Registers :
        (alt # NotCalled
         /\ Len(input) > Len(rn[1])
         /\ RegisterPart(input) = rn[1]
         /\ ClassEnd(input) \in Spellings)
            => LET c == ClassSpelled(ClassEnd(input))
                   octave == IF c \in ABOrASharp THEN rn[2] - 1 ELSE rn[2]
               IN  /\ AlternativeCaptures(input)
                          = [pitch_class |-> ClassEnd(input), octave |-> rn[1]]
                   /\ base_octave(AlternativeCaptures(input).octave) = rn[2]
                   /\ octave >= 0 => alt = OkPitch(Pitch(octave, c))
                   /\ alt.kind = "Ok" => alt.pitch = Pitch(octave, c)

\* lowlowG# is read as lowlow and G#, not as low and a rest
C21_Witness ==
    /\ input = LOWLOW \o <<"G", "#">>
    /\ alt = OkPitch(Pitch(1, "GSharp"))
    /\ result = OkPitchWithFormat(Pitch(1, "GSharp"), AlternativePitchNotation)

-----------------------------------------------------------------------------
(* C22 *)

\* the texts C22 lists as rejected
C22_Rejected ==
    {LOW \o <<"h", "i", "C">>, MID2 \o <<"h", "i", "C">>,
     <<"h", "i">> \o MID1 \o <<"C">>, LOWLOWLOW \o LOW \o <<"C">>,
     MID3 \o <<"C">>, MID \o <<"C">>, HIGH \o <<"C">>,
     <<"h", "i">>, MID2, <<"C">>, <<"h", "i", "C", "4">>,
     <<"h", "i", " ", "C">>, <<"h", "i", "C", " ">>}

\* C22: the alternative grammar accepts exactly one register token followed
\* by exactly one class spelling: it rejects mixed or extended registers
\* (lowhiC, mid2hiC, himid1C, lowlowlowlowC, mid3C, midC, highC), a register
\* with no class (hi, mid2), a class with no register (C), a trailing octave
\* digit (hiC4), and a separator or surrounding whitespace ('hi C', 'hiC ').
C22_AlternativeGrammarShape ==
    /\ alt.kind = "Ok" => IsRegisterAndClass(input)
    /\ (alt # NotCalled /\ input \in C22_Rejected) => alt = ParsePitchError

C22_Witness ==
    /\ input = MID2 \o <<"h", "i", "C">>
    /\ alt = ParsePitchError
    /\ parse_alternative_pitch_notation(<<"h", "i", "C">>) = {OkPitch(Pitch(5, "C"))}

-----------------------------------------------------------------------------
(* C23 *)

\* C23: for every string s accepted by PitchWithFormat::from_str with
\* detected format f, rendering the parsed pitch in the same format f yields
\* exactly s; so two different accepted strings of one notation never parse
\* to the same Pitch.
C23_CanonicalSpelling ==
    (pc = "returned" /\ result.kind = "Ok")
        => /\ result.format = ScientificPitchNotation
                  => ScientificFmt(result.pitch) = input
           /\ result.format = AlternativePitchNotation
                  => AlternativeFmt(result.pitch) = input
           /\ result.format \in {ScientificPitchNotation, AlternativePitchNotation}

\* a typed string, not a rendering, is the canonical text of its pitch
C23_Witness ==
    /\ pc = "returned"
    /\ pitch0 = NoPitch
    /\ input = MID1 \o <<"A", "#">>
    /\ result = OkPitchWithFormat(Pitch(2, "ASharp"), AlternativePitchNotation)
    /\ AlternativeFmt(result.pitch) = input

-----------------------------------------------------------------------------
(* C24 *)

\* the notation that is not f
C24_Opposite(f) ==
    IF f = ScientificPitchNotation THEN AlternativePitchNotation
    ELSE ScientificPitchNotation

\* C24: for every string s accepted by PitchWithFormat::from_str, the string
\* main prints (the rendering in the other format) is itself accepted by
\* from_str with the opposite format tag, and converting it again yields
\* exactly s.
C24_ConversionInvolution ==
    pc = "done"
        => LET line == SubSeq(output, 1, Len(output) - 1)
               again == FromStrScientificFirst(line)
           IN  /\ output = line \o <<Newline>>
               /\ again = {OkPitchWithFormat(result.pitch, C24_Opposite(result.format))}
               /\ \A r \in again : Printed(r) = input \o <<Newline>>

\* A0 goes to lowlowA and back
C24_Witness ==
    /\ pc = "done"
    /\ input = <<"A", "0">>
    /\ output = LOWLOW \o <<"A", Newline>>
    /\ Printed(OkPitchWithFormat(Pitch(0, "A"), AlternativePitchNotation))
           = <<"A", "0", Newline>>

-----------------------------------------------------------------------------
(* C25 *)

\* the ranks 12 * octave + index of the pitches the register value n covers
C25_Covered(n) ==
    CASE n = 0 -> 0..8
      [] n = 256 -> (12 * 255 + 9)..(12 * 255 + 11)
      [] OTHER -> (12 * (n - 1) + 9)..(12 * n + 8)

\* C25: the alternative register is monotone in pitch order: for pitches
\* p <= q in the Pitch ordering the register value rendered for p (the octave,
\* plus 1 for A, A#, B) is at most the one rendered for q; each register value
\* n in 1..255 covers exactly the 12 consecutive pitches from A of octave
\* n - 1 up to G# of octave n, register 0 covers only C0..G#0 and register
\* 256 only A255..B255.
C25_RegisterMonotone ==
    /\ (pc = "compared" /\ cmp.ordering \in {Less, Equal})
           => RegisterOf(pitch0) <= RegisterOf(cmp.other)
    /\ (pc = "compared" /\ cmp.ordering = Greater)
           => RegisterOf(pitch0) >= RegisterOf(cmp.other)
    /\ pitch0 # NoPitch
           => /\ RegisterOf(pitch0) \in 0..256
              /\ C18_Rank(pitch0) \in C25_Covered(RegisterOf(pitch0))
    /\ (pitch0 # NoPitch /\ pc = "from_str" /\ ~IsAtoG(input[1]))
           => IsRegisterToken(RegisterPart(input), RegisterOf(pitch0))

\* G# of octave 3 is the last pitch of register 3, A of octave 3 the first of
\* register 4
C25_Witness ==
    /\ pc = "compared"
    /\ pitch0 = Pitch(3, "GSharp")
    /\ cmp = [other |-> Pitch(3, "A"), ordering |-> Less]
    /\ RegisterOf(pitch0) = 3
    /\ RegisterOf(cmp.other) = 4

=============================================================================
